---------------------------- MODULE Spec2Model ----------------------------
(***************************************************************************)
(* A model of the trivia API backend (backend/flaskr/__init__.py): the     *)
(* questions table, and one action per request handler.  Text is a         *)
(* sequence of one-character strings; a JSON value is a tagged record.     *)
(*                                                                         *)
(* The categories table is never written by a handler and is a constant    *)
(* here.  Calls into the database are taken to succeed: the except         *)
(* branches of add_question and delete_question are not taken.  A query    *)
(* without order_by is given in id order; no property below reads the      *)
(* order of such a result.                                                 *)
(***************************************************************************)
EXTENDS Integers, Sequences, FiniteSets, TLC

VARIABLES
    questions,           \* the rows of the questions table
    next_id,             \* the table's id sequence: the id the next insert gets
    request,             \* the request handled last
    response,            \* the response to it
    previous_questions,  \* a quiz caller's list of the ids it was served
    quiz_category,       \* the category id that caller plays
    session_done         \* that caller was told the quiz is exhausted

vars == <<questions, next_id, request, response,
          previous_questions, quiz_category, session_done>>

(***************************************************************************)
(* Bounds of the model.                                                    *)
(***************************************************************************)
MaxId == 3          \* Spec: inserts stop once the id sequence passes this
MaxSeed == 23       \* SpecListing: the largest seeded table
MaxPage == 4        \* SpecListing: page numbers run from -MaxPage to MaxPage
MaxTextLen == 2     \* SpecSearch: the longest question text and search term
MaxPool == 4        \* SpecSession: the largest table a quiz session plays

(***************************************************************************)
(* Program constants.                                                      *)
(***************************************************************************)
QUESTIONS_PER_PAGE == 10

(***************************************************************************)
(* JSON values of a request body and query-string arguments.               *)
(***************************************************************************)
JNull == [t |-> "null", i |-> 0, s |-> <<>>]
JInt(n) == [t |-> "int", i |-> n, s |-> <<>>]
JStr(str) == [t |-> "str", i |-> 0, s |-> str]

\* Python's truth value of a JSON value: None, 0 and "" are false.
Truthy(v) ==
    CASE v.t = "null" -> FALSE
      [] v.t = "int" -> v.i # 0
      [] v.t = "str" -> v.s # <<>>

Min(a, b) == IF a < b THEN a ELSE b
Max(a, b) == IF a > b THEN a ELSE b

(***************************************************************************)
(* Text conversions.                                                       *)
(***************************************************************************)
DigitChars == <<"0", "1", "2", "3", "4", "5", "6", "7", "8", "9">>
UpperChars == <<"A", "B", "C", "D", "E", "F", "G", "H", "I", "J", "K", "L", "M",
                "N", "O", "P", "Q", "R", "S", "T", "U", "V", "W", "X", "Y", "Z">>
LowerChars == <<"a", "b", "c", "d", "e", "f", "g", "h", "i", "j", "k", "l", "m",
                "n", "o", "p", "q", "r", "s", "t", "u", "v", "w", "x", "y", "z">>

IsDigit(c) == \E d \in 1..10 : DigitChars[d] = c
DigitVal(c) == (CHOOSE d \in 1..10 : DigitChars[d] = c) - 1

\* Python's str() of an integer.
RECURSIVE StrNat(_)
StrNat(n) ==
    IF n < 10 THEN <<DigitChars[n + 1]>>
    ELSE StrNat(n \div 10) \o <<DigitChars[(n % 10) + 1]>>
Str(n) == IF n < 0 THEN <<"-">> \o StrNat(-n) ELSE StrNat(n)

\* Python's int() of a query-string argument: an optional sign and decimal
\* digits.  ok is FALSE where int() raises ValueError.
RECURSIVE DigitsVal(_)
DigitsVal(ds) ==
    IF ds = <<>> THEN 0
    ELSE 10 * DigitsVal(SubSeq(ds, 1, Len(ds) - 1)) + DigitVal(ds[Len(ds)])
ParseInt(str) ==
    LET signed == str # <<>> /\ Head(str) \in {"-", "+"}
        ds == IF signed THEN Tail(str) ELSE str
        ok == ds # <<>> /\ \A k \in 1..Len(ds) : IsDigit(ds[k])
    IN  [ok |-> ok,
         val |-> IF ~ok THEN 0
                 ELSE IF signed /\ Head(str) = "-" THEN -DigitsVal(ds)
                 ELSE DigitsVal(ds)]

\* Case folding of one character and of a text (str.lower(), and ILIKE's).
LowerChar(c) ==
    IF \E k \in 1..26 : UpperChars[k] = c
    THEN LowerChars[CHOOSE k \in 1..26 : UpperChars[k] = c]
    ELSE c
LowerStr(str) == [k \in 1..Len(str) |-> LowerChar(str[k])]

(***************************************************************************)
(* SQL LIKE matching of a text against a pattern: % matches any run of     *)
(* characters, _ any one character, and a backslash makes the character    *)
(* after it literal.  ILIKE is LIKE on the case-folded text and pattern.   *)
(***************************************************************************)
RECURSIVE LikeMatch(_, _)
LikeMatch(text, pat) ==
    IF pat = <<>> THEN text = <<>>
    ELSE IF Head(pat) = "%"
         THEN \/ LikeMatch(text, Tail(pat))
              \/ text # <<>> /\ LikeMatch(Tail(text), pat)
    ELSE IF Head(pat) = "_"
         THEN text # <<>> /\ LikeMatch(Tail(text), Tail(pat))
    ELSE IF Head(pat) = "\\"
         THEN /\ Len(pat) >= 2
              /\ text # <<>>
              /\ Head(text) = pat[2]
              /\ LikeMatch(Tail(text), Tail(Tail(pat)))
    ELSE text # <<>> /\ Head(text) = Head(pat) /\ LikeMatch(Tail(text), Tail(pat))

ilike(text, pat) == LikeMatch(LowerStr(text), LowerStr(pat))

(***************************************************************************)
(* The questions table and its queries.                                    *)
(***************************************************************************)
\* Question.format(): the row as the dictionary a response carries.
format(q) ==
    [id |-> q.id, question |-> q.question, answer |-> q.answer,
     category |-> q.category, difficulty |-> q.difficulty]

\* The value a text column stores for a bound parameter.
ColText(v) == IF v.t = "int" THEN Str(v.i) ELSE v.s

\* Query.order_by(Question.id).all(): the rows in ascending id order.
RECURSIVE OrderById(_)
OrderById(rows) ==
    IF rows = {} THEN <<>>
    ELSE LET first == CHOOSE q \in rows : \A r \in rows : q.id <= r.id
         IN  <<first>> \o OrderById(rows \ {first})

\* Query.get(id): the row with that primary key, if any.
QueryGet(rows, id) == {q \in rows : q.id = id}

\* Python's seq[start:end].
SliceIndex(k, len) == IF k < 0 THEN Max(k + len, 0) ELSE Min(k, len)
PySlice(seq, start, end) ==
    LET lo == SliceIndex(start, Len(seq))
        hi == SliceIndex(end, Len(seq))
    IN  IF lo < hi THEN SubSeq(seq, lo + 1, hi) ELSE <<>>

\* request.args.get('page', 1, type=int): 1 when absent or not an integer.
PageArg(arg) ==
    IF arg.t # "str" THEN 1
    ELSE IF ParseInt(arg.s).ok THEN ParseInt(arg.s).val ELSE 1

\* The pagination with the page number taken as zero-based.
paginate_questions_zero_based(arg, selection) ==
    LET page == PageArg(arg)
        start == page * QUESTIONS_PER_PAGE
        end == start + QUESTIONS_PER_PAGE
        qs == [k \in 1..Len(selection) |-> format(selection[k])]
    IN  PySlice(qs, start, end)

paginate_questions(arg, selection) ==
    LET page == PageArg(arg)
        start == (page - 1) * QUESTIONS_PER_PAGE
        end == start + QUESTIONS_PER_PAGE
        qs == [k \in 1..Len(selection) |-> format(selection[k])]
    IN  PySlice(qs, start, end)


(***************************************************************************)
(* Persistence (models.py): the Question constructor with insert(), and    *)
(* delete().  The category column holds text, the difficulty column an     *)
(* integer; the id comes from the table's sequence.                        *)
(***************************************************************************)
NewQuestion(id, question, answer, category, difficulty) ==
    [id |-> id, question |-> ColText(question), answer |-> ColText(answer),
     category |-> ColText(category), difficulty |-> difficulty.i]
QuestionInsert(rows, q) == rows \cup {q}
QuestionDelete(rows, q) == rows \ {q}

(***************************************************************************)
(* Responses.                                                              *)
(***************************************************************************)
None == [null |-> TRUE]

\* {cat.id: cat.type for cat in categories}, of the six seeded categories.
Categories ==
    <<"Science", "Art", "Geography", "History", "Entertainment", "Sports">>
NoRequest == [op |-> "none"]
NoResponse == [status |-> 0, success |-> FALSE]

\* errorhandler(404) and errorhandler(422), reached by abort().
not_found == [status |-> 404, success |-> FALSE, error |-> 404]
unprocessable == [status |-> 422, success |-> FALSE, error |-> 422]

FormatAll(selection) == [k \in 1..Len(selection) |-> format(selection[k])]

(***************************************************************************)
(* The handlers, each as the result of one request on a table: the         *)
(* response and the table after it.                                        *)
(***************************************************************************)
\* get_questions without its 404 on an empty page.
get_questions_permissive(rows, arg) ==
    LET selection == OrderById(rows)
    IN  [status |-> 200, success |-> TRUE,
         questions |-> paginate_questions(arg, selection),
         total_questions |-> Len(selection),
         categories |-> Categories,
         current_category |-> None]

get_questions(rows, arg) ==
    LET selection == OrderById(rows)
        current_questions == paginate_questions(arg, selection)
    IN  IF current_questions = <<>> THEN not_found
        ELSE [status |-> 200, success |-> TRUE,
              questions |-> current_questions,
              total_questions |-> Len(selection),
              categories |-> Categories,
              current_category |-> None]
\* delete_question without its 404 check.
delete_question_unchecked(rows, question_id) ==
    [response |-> [status |-> 200, success |-> TRUE, deleted |-> question_id],
     rows |-> {q \in rows : q.id # question_id}]

delete_question(rows, question_id) ==
    LET found == QueryGet(rows, question_id)
    IN  IF found = {} THEN [response |-> not_found, rows |-> rows]
        ELSE [response |-> [status |-> 200, success |-> TRUE,
                            deleted |-> question_id],
              rows |-> QuestionDelete(rows, CHOOSE q \in found : TRUE)]
\* The validation with the answer left out.
AddValid_no_answer(data) ==
    Truthy(data.question) /\ Truthy(data.category) /\ Truthy(data.difficulty)

\* The validation of add_question: every field has a true value.
AddValid(data) ==
    Truthy(data.question) /\ Truthy(data.answer)
        /\ Truthy(data.category) /\ Truthy(data.difficulty)

add_question(rows, nid, data) ==
    IF ~AddValid(data)
    THEN [response |-> unprocessable, rows |-> rows, next_id |-> nid]
    ELSE LET question == NewQuestion(nid, data.question, data.answer,
                                     data.category, data.difficulty)
         IN  [response |-> [status |-> 200, success |-> TRUE,
                            created |-> question.id],
              rows |-> QuestionInsert(rows, question),
              next_id |-> nid + 1]

\* data.get('searchTerm', ''): the empty text when the key is absent.
SearchTerm(arg) == IF arg.t = "null" THEN <<>> ELSE arg.s

SearchSelection(rows, search_term) ==
    {q \in rows : ilike(q.question, <<"%">> \o search_term \o <<"%">>)}

search_questions(rows, arg) ==
    LET selection == OrderById(SearchSelection(rows, SearchTerm(arg)))
    IN  [status |-> 200, success |-> TRUE,
         questions |-> FormatAll(selection),
         total_questions |-> Len(selection),
         current_category |-> None]

CategorySelection(rows, category_id) ==
    {q \in rows : q.category = Str(category_id)}

get_questions_by_category(rows, category_id) ==
    LET selection == OrderById(CategorySelection(rows, category_id))
    IN  [status |-> 200, success |-> TRUE,
         questions |-> FormatAll(selection),
         total_questions |-> Len(selection),
         current_category |-> category_id]

\* data.get('quiz_category', {}).get('id', 0): 0 when absent.
QuizCategoryId(arg) == IF arg.t = "null" THEN 0 ELSE arg.i
\* The selection with the exclusion left out of the category branch.
QuizSelection_no_exclusion(rows, prev, category_id) ==
    IF category_id = 0
    THEN {q \in rows : q.id \notin prev}
    ELSE {q \in rows : q.category = Str(category_id)}

\* The rows play_quiz draws from.
QuizSelection(rows, prev, category_id) ==
    IF category_id = 0
    THEN {q \in rows : q.id \notin prev}
    ELSE {q \in rows : q.category = Str(category_id) /\ q.id \notin prev}
\* play_quiz aborting with 404 on an empty selection, as get_questions does.
play_quiz_strict(rows, prev, arg) ==
    LET qs == QuizSelection(rows, prev, QuizCategoryId(arg))
    IN  IF qs # {}
        THEN {[status |-> 200, success |-> TRUE, question |-> format(q)] : q \in qs}
        ELSE {not_found}

\* play_quiz: every response random.choice can lead to.
play_quiz(rows, prev, arg) ==
    LET qs == QuizSelection(rows, prev, QuizCategoryId(arg))
    IN  IF qs # {}
        THEN {[status |-> 200, success |-> TRUE, question |-> format(q)] : q \in qs}
        ELSE {[status |-> 200, success |-> TRUE, question |-> None]}

(***************************************************************************)
(* Request inputs.                                                         *)
(***************************************************************************)
QuestionArgs == {JNull, JStr(<<>>), JStr(<<"Q">>)}
AnswerArgs == {JNull, JStr(<<>>), JStr(<<"A">>)}
CategoryArgs == {JNull, JStr(<<>>), JInt(0), JInt(1), JStr(<<"2">>)}
DifficultyArgs == {JNull, JStr(<<>>), JInt(0), JInt(7)}
AddArgs ==
    [question : QuestionArgs, answer : AnswerArgs,
     category : CategoryArgs, difficulty : DifficultyArgs]
PageArgs ==
    {JNull, JStr(<<>>), JStr(<<"x">>)}
        \cup {JStr(Str(n)) : n \in (0 - MaxPage)..MaxPage}
CategoryIds == 0..3
QuizCategoryArgs == {JNull} \cup {JInt(c) : c \in CategoryIds}
TermArgs == {JNull, JStr(<<>>), JStr(<<"q">>), JStr(<<"z", "z">>), JStr(<<"_">>)}

(***************************************************************************)
(* The actions: one request, handled.                                      *)
(***************************************************************************)
SessionUnchanged == UNCHANGED <<previous_questions, quiz_category, session_done>>

GetQuestions ==
    \E arg \in PageArgs :
        /\ request' = [op |-> "get_questions", page |-> arg]
        /\ response' = get_questions(questions, arg)
        /\ UNCHANGED <<questions, next_id>>
        /\ SessionUnchanged

DeleteQuestion ==
    \E question_id \in 0..(MaxId + 1) :
        LET r == delete_question(questions, question_id)
        IN  /\ request' = [op |-> "delete_question", question_id |-> question_id]
            /\ response' = r.response
            /\ questions' = r.rows
            /\ UNCHANGED next_id
            /\ SessionUnchanged

AddQuestion ==
    /\ next_id <= MaxId
    /\ \E data \in AddArgs :
        LET r == add_question(questions, next_id, data)
        IN  /\ request' = [op |-> "add_question", data |-> data]
            /\ response' = r.response
            /\ questions' = r.rows
            /\ next_id' = r.next_id
            /\ SessionUnchanged

SearchQuestions(args) ==
    \E arg \in args :
        /\ request' = [op |-> "search_questions", searchTerm |-> arg]
        /\ response' = search_questions(questions, arg)
        /\ UNCHANGED <<questions, next_id>>
        /\ SessionUnchanged

GetQuestionsByCategory ==
    \E category_id \in CategoryIds :
        /\ request' = [op |-> "get_questions_by_category",
                       category_id |-> category_id]
        /\ response' = get_questions_by_category(questions, category_id)
        /\ UNCHANGED <<questions, next_id>>
        /\ SessionUnchanged

PlayQuiz ==
    \E prev \in SUBSET (1..MaxId), arg \in QuizCategoryArgs :
        /\ request' = [op |-> "play_quiz", previous_questions |-> prev,
                       quiz_category |-> arg]
        /\ response' \in play_quiz(questions, prev, arg)
        /\ UNCHANGED <<questions, next_id>>
        /\ SessionUnchanged

(***************************************************************************)
(* Spec: the service from an empty table, all handlers.                    *)
(***************************************************************************)
NoSession ==
    /\ previous_questions = <<>>
    /\ quiz_category = JNull
    /\ session_done = FALSE

Init ==
    /\ questions = {}
    /\ next_id = 1
    /\ request = NoRequest
    /\ response = NoResponse
    /\ NoSession

Next ==
    \/ GetQuestions
    \/ DeleteQuestion
    \/ AddQuestion
    \/ SearchQuestions(TermArgs)
    \/ GetQuestionsByCategory
    \/ PlayQuiz

Spec == Init /\ [][Next]_vars

(***************************************************************************)
(* SpecListing: the read handlers over seeded tables large enough to span  *)
(* several pages, one seeded row possibly deleted again.                   *)
(***************************************************************************)
SeedQuestion(i) ==
    NewQuestion(i, JStr(<<"Q">> \o Str(i)), JStr(<<"A">>),
                JInt(1 + (i % 2)), JInt(1 + (i % 5)))
SeedTable(k) == {SeedQuestion(i) : i \in 1..k}
\* The id of the seeded row deleted again; 0 for none.
GoneIds == {0, 2, 11}

\* paginate_questions applied to the table's rows in id order.
Paginate ==
    \E arg \in PageArgs :
        /\ request' = [op |-> "paginate_questions", page |-> arg]
        /\ response' = [status |-> 0, success |-> FALSE,
                        page |-> paginate_questions(arg, OrderById(questions))]
        /\ UNCHANGED <<questions, next_id>>
        /\ SessionUnchanged

InitListing ==
    /\ \E k \in 0..MaxSeed, gone \in GoneIds :
        /\ gone <= k
        /\ questions = {q \in SeedTable(k) : q.id # gone}
        /\ next_id = k + 1
    /\ request = NoRequest
    /\ response = NoResponse
    /\ NoSession

NextListing ==
    \/ GetQuestions
    \/ SearchQuestions(TermArgs)
    \/ GetQuestionsByCategory
    \/ Paginate

SpecListing == InitListing /\ [][NextListing]_vars

(***************************************************************************)
(* SpecSearch: the search handler over tables of one or two questions,     *)
(* the first with any text and the request with any term over a small      *)
(* alphabet that holds the characters LIKE reads as its own.               *)
(***************************************************************************)
Alphabet == {"a", "A", "b", "_", "%"}
TextsUpTo(n) == UNION {[1..k -> Alphabet] : k \in 0..n}
SearchTexts == TextsUpTo(MaxTextLen) \ {<<>>}
\* The text of a second question; the empty text for none.
SecondTexts == {<<>>, <<"a", "b">>, <<"_">>}
SearchTermArgs == {JNull} \cup {JStr(t) : t \in TextsUpTo(MaxTextLen)}

TextQuestion(i, text) == NewQuestion(i, JStr(text), JStr(<<"A">>), JInt(1), JInt(1))

InitSearch ==
    /\ \E t1 \in SearchTexts, t2 \in SecondTexts :
        /\ questions = {TextQuestion(1, t1)}
                        \cup (IF t2 = <<>> THEN {} ELSE {TextQuestion(2, t2)})
        /\ next_id = 3
    /\ request = NoRequest
    /\ response = NoResponse
    /\ NoSession

NextSearch == SearchQuestions(SearchTermArgs)

SpecSearch == InitSearch /\ [][NextSearch]_vars

(***************************************************************************)
(* SpecSession: one quiz caller.  It starts with no previous questions,    *)
(* keeps its category, and adds the id of every question it is served to   *)
(* its previous questions before it asks again; nothing else is running.   *)
(* The caller keeps asking until it is served null, and every call is      *)
(* answered: weak fairness of the step.                                    *)
(***************************************************************************)
Range(seq) == {seq[k] : k \in 1..Len(seq)}

QuizSession ==
    /\ ~session_done
    /\ \E r \in play_quiz(questions, Range(previous_questions), quiz_category) :
        /\ request' = [op |-> "play_quiz",
                       previous_questions |-> Range(previous_questions),
                       quiz_category |-> quiz_category]
        /\ response' = r
        /\ IF r.question = None
           THEN session_done' = TRUE /\ UNCHANGED previous_questions
           ELSE /\ previous_questions' = Append(previous_questions, r.question.id)
                /\ UNCHANGED session_done
    /\ UNCHANGED <<questions, next_id, quiz_category>>

InitSession ==
    /\ \E k \in 0..MaxPool :
        \E cats \in [1..k -> {1, 2}] :
            /\ questions = {NewQuestion(i, JStr(<<"Q">>), JStr(<<"A">>),
                                        JInt(cats[i]), JInt(1)) : i \in 1..k}
            /\ next_id = k + 1
    /\ request = NoRequest
    /\ response = NoResponse
    /\ previous_questions = <<>>
    /\ quiz_category \in QuizCategoryArgs
    /\ session_done = FALSE

NextSession == QuizSession

SpecSession == InitSession /\ [][NextSession]_vars /\ WF_vars(QuizSession)

(***************************************************************************)
(* What the claims speak of, stated apart from the handlers.               *)
(***************************************************************************)
Ids(rows) == {q.id : q \in rows}
IsFailure(r, code) == r.status = code /\ r.success = FALSE /\ r.error = code
IsSuccess(r) == r.status = 200 /\ r.success = TRUE

\* A category text names the category id: compared as identifiers.
SameCategory(text, category_id) ==
    ParseInt(text).ok /\ ParseInt(text).val = category_id

\* The candidate pool of a quiz call.
CandidatePool(rows, excluded, cat) ==
    {q \in rows : q.id \notin excluded /\ (cat # 0 => SameCategory(q.category, cat))}

\* A field of a create request that is absent or empty.
AbsentOrEmpty(v) == v.t = "null" \/ (v.t = "str" /\ v.s = <<>>)

\* The four fields of a create request are all present: non-empty texts, a
\* category value, an integer difficulty of any size.
AllPresent(data) ==
    /\ data.question.t = "str" /\ data.question.s # <<>>
    /\ data.answer.t = "str" /\ data.answer.s # <<>>
    /\ ~AbsentOrEmpty(data.category)
    /\ data.difficulty.t = "int"

\* A stored row equals the submitted fields; the category as an identifier.
EqualsSubmitted(q, data) ==
    /\ q.question = data.question.s
    /\ q.answer = data.answer.s
    /\ IF data.category.t = "int"
       THEN SameCategory(q.category, data.category.i)
       ELSE q.category = data.category.s
    /\ q.difficulty = data.difficulty.i

(***************************************************************************)
(* C1: a question the quiz returns is never one of the excluded ids, and   *)
(* for a category id other than 0 it is of that category.                  *)
(***************************************************************************)
QuizExclusion ==
    (request.op = "play_quiz" /\ response.question # None) =>
        LET cat == QuizCategoryId(request.quiz_category)
        IN  /\ response.question.id \notin request.previous_questions
            /\ cat # 0 => SameCategory(response.question.category, cat)

\* A category quiz that returned a question while another question of that
\* category was excluded and a question of another category was not.
QuizExclusionWitness ==
    /\ request.op = "play_quiz"
    /\ response.question # None
    /\ QuizCategoryId(request.quiz_category) # 0
    /\ \E q \in questions :
        /\ q.id \in request.previous_questions
        /\ q.category = response.question.category
    /\ \E q \in questions :
        /\ q.id \notin request.previous_questions
        /\ q.category # response.question.category

(***************************************************************************)
(* C9: the quiz answers with success always; its question is null exactly  *)
(* when the candidate pool is empty.                                       *)
(***************************************************************************)
QuizExhaustion ==
    request.op = "play_quiz" =>
        LET pool == CandidatePool(questions, request.previous_questions,
                                  QuizCategoryId(request.quiz_category))
        IN  /\ IsSuccess(response)
            /\ (pool = {}) <=> (response.question = None)
            /\ response.question # None => \E q \in pool : response.question = format(q)

\* An exhausted quiz over a table that still holds questions.
QuizExhaustionWitness ==
    /\ request.op = "play_quiz"
    /\ response.question = None
    /\ IsSuccess(response)
    /\ questions # {}
    /\ request.previous_questions # {}

(***************************************************************************)
(* C6: a create request with a field absent or empty is answered 422 and   *)
(* leaves the table and the id sequence as they were.                      *)
(***************************************************************************)
CreateRejected ==
    [][(/\ request'.op = "add_question"
        /\ \/ AbsentOrEmpty(request'.data.question)
           \/ AbsentOrEmpty(request'.data.answer)
           \/ AbsentOrEmpty(request'.data.category)
           \/ AbsentOrEmpty(request'.data.difficulty))
       => /\ IsFailure(response', 422)
          /\ questions' = questions
          /\ next_id' = next_id]_vars

\* A create request with only its answer empty, rejected on a table that
\* holds a question.
CreateRejectedWitness ==
    /\ request.op = "add_question"
    /\ request.data.answer = JStr(<<>>)
    /\ Truthy(request.data.question)
    /\ Truthy(request.data.category)
    /\ Truthy(request.data.difficulty)
    /\ IsFailure(response, 422)
    /\ questions # {}

(***************************************************************************)
(* C7: a create request whose four fields are all present, whatever the    *)
(* difficulty integer, is accepted: a question is stored and its new id    *)
(* returned with success.                                                  *)
(***************************************************************************)
CreateAccepted ==
    (request.op = "add_question" /\ AllPresent(request.data)) =>
        /\ IsSuccess(response)
        /\ response.created \in Ids(questions)

(***************************************************************************)
(* C4: creating a question with valid fields returns success and a new id, *)
(* and the row stored under that id equals the submitted fields; deleting  *)
(* an id that is stored returns success with that id and leaves no row     *)
(* with it.                                                                *)
(***************************************************************************)
CreateDeleteRoundTrip ==
    [][/\ (request'.op = "add_question" /\ AllPresent(request'.data)) =>
            /\ IsSuccess(response')
            /\ response'.created \notin Ids(questions)
            /\ \E q \in questions' :
                q.id = response'.created /\ EqualsSubmitted(q, request'.data)
       /\ (request'.op = "delete_question"
              /\ request'.question_id \in Ids(questions)) =>
            /\ IsSuccess(response')
            /\ response'.deleted = request'.question_id
            /\ request'.question_id \notin Ids(questions')]_vars

\* The round trip for the create requests the handler accepts.
AcceptedRoundTrip ==
    [][/\ (request'.op = "add_question" /\ IsSuccess(response')) =>
            /\ response'.created \notin Ids(questions)
            /\ \E q \in questions' :
                q.id = response'.created /\ EqualsSubmitted(q, request'.data)
       /\ (request'.op = "delete_question"
              /\ request'.question_id \in Ids(questions)) =>
            /\ IsSuccess(response')
            /\ response'.deleted = request'.question_id
            /\ request'.question_id \notin Ids(questions')]_vars

(***************************************************************************)
(* C8: deleting an id that is not stored is answered 404 and leaves the    *)
(* table as it was; deleting a stored id removes the row with that id and  *)
(* no other.                                                               *)
(***************************************************************************)
DeleteFrame ==
    [][request'.op = "delete_question" =>
        LET id == request'.question_id
        IN  IF id \notin Ids(questions)
            THEN IsFailure(response', 404) /\ questions' = questions
            ELSE /\ IsSuccess(response')
                 /\ response'.deleted = id
                 /\ questions' = {q \in questions : q.id # id}
                 /\ Cardinality(questions') = Cardinality(questions) - 1]_vars

\* A delete that succeeded and left other questions in the table.
DeleteFrameWitness ==
    /\ request.op = "delete_question"
    /\ IsSuccess(response)
    /\ response.deleted \notin Ids(questions)
    /\ questions # {}

(***************************************************************************)
(* C2: pagination.  PageLength is the number of elements the claim gives   *)
(* page n of a sequence of length len; PagesJoined is pages 1..n joined.   *)
(***************************************************************************)
PageLength(len, n) == Min(10, Max(0, len - 10 * (n - 1)))

RECURSIVE PagesJoined(_, _)
PagesJoined(selection, n) ==
    IF n = 0 THEN <<>>
    ELSE PagesJoined(selection, n - 1)
             \o paginate_questions(JStr(Str(n)), selection)

\* Pages 1..ceil(L/10) joined are the whole sequence, in order.
PagesCoverAll ==
    LET selection == OrderById(questions)
    IN  PagesJoined(selection, (Len(selection) + 9) \div 10) = FormatAll(selection)

\* C2 as stated: for any requested page number n, paginate_questions
\* returns min(10, max(0, L - 10(n-1))) elements, and pages 1..ceil(L/10)
\* joined are the original sequence.
PaginationAnyPage ==
    /\ request.op = "paginate_questions" =>
           Len(response.page) = PageLength(Cardinality(questions), PageArg(request.page))
    /\ PagesCoverAll

\* C2 amended: for any requested page number n >= 1, paginate_questions
\* returns min(10, max(0, L - 10(n-1))) elements, and pages 1..ceil(L/10)
\* joined are the original sequence, nothing twice and nothing left out.
PaginationBounds ==
    /\ (request.op = "paginate_questions" /\ PageArg(request.page) >= 1) =>
           Len(response.page) = PageLength(Cardinality(questions), PageArg(request.page))
    /\ PagesCoverAll

\* Page 2 of eleven questions: one element, the last of the sequence.
PaginationWitness ==
    /\ request.op = "paginate_questions"
    /\ PageArg(request.page) = 2
    /\ Cardinality(questions) = 11
    /\ Len(response.page) = 1
    /\ response.page[1] = format(OrderById(questions)[11])

(***************************************************************************)
(* C3: a stored question is in the search result exactly when the          *)
(* lower-cased term is a substring of its lower-cased text; with the empty *)
(* term, or none supplied, the result is the whole table.                  *)
(***************************************************************************)
IsSubstring(t, text) ==
    \E k \in 0..(Len(text) - Len(t)) : SubSeq(text, k + 1, k + Len(t)) = t

InResult(q, r) == \E k \in 1..Len(r.questions) : r.questions[k] = format(q)

\* C3 as stated: q is in the result of a search for t exactly when lower(t)
\* is a substring of lower(q.question); the empty or absent term returns
\* the whole table.
SearchIsSubstring ==
    request.op = "search_questions" =>
        LET t == SearchTerm(request.searchTerm)
        IN  /\ \A q \in questions :
                InResult(q, response) <=> IsSubstring(LowerStr(t), LowerStr(q.question))
            /\ t = <<>> =>
                /\ \A q \in questions : InResult(q, response)
                /\ response.total_questions = Cardinality(questions)

\* The same for the terms that hold none of the characters %, _ and \.
SearchIsSubstringOfPlainTerms ==
    (request.op = "search_questions"
        /\ Range(SearchTerm(request.searchTerm)) \cap {"%", "_", "\\"} = {}) =>
        LET t == SearchTerm(request.searchTerm)
        IN  /\ \A q \in questions :
                InResult(q, response) <=> IsSubstring(LowerStr(t), LowerStr(q.question))
            /\ t = <<>> =>
                /\ \A q \in questions : InResult(q, response)
                /\ response.total_questions = Cardinality(questions)

(***************************************************************************)
(* C5: the plain listing answers 404 exactly when the requested page holds *)
(* no question; search and the category listing answer with success        *)
(* always, and with an empty list and a total of 0 when nothing matches.   *)
(***************************************************************************)
\* The requested page of a table of len questions is empty.  A page number
\* below 1 is sliced from the end of the sequence.
PageIsEmpty(len, n) ==
    IF n >= 1 THEN len <= 10 * (n - 1)
    ELSE IF n = 0 THEN TRUE
    ELSE len <= 10 * (0 - n)

SessionPool == CandidatePool(questions, {}, QuizCategoryId(quiz_category))

SessionSafe ==
    /\ \A j, k \in 1..Len(previous_questions) :
           previous_questions[j] = previous_questions[k] => j = k
    /\ Range(previous_questions) \subseteq Ids(SessionPool)
    /\ session_done =>
        /\ Range(previous_questions) = Ids(SessionPool)
        /\ Len(previous_questions) = Cardinality(SessionPool)
        /\ response.question = None
    /\ ~session_done => Len(previous_questions) < Cardinality(SessionPool) + 1

\* C10: in every session no question is served twice, the null response is
\* reached, and it is reached after exactly the N questions of the pool.
SessionProgress == []SessionSafe /\ <>session_done

\* A category session over a table that holds another category too, ended
\* after three questions.
SessionProgressWitness ==
    /\ session_done
    /\ Len(previous_questions) = 3
    /\ Cardinality(questions) > 3
    /\ QuizCategoryId(quiz_category) # 0

=============================================================================
